---- MODULE Spec2Model ----
(***************************************************************************)
(* Model of converters/onnx2nnet.py: the function onnx2nnet, which walks   *)
(* the node list of an ONNX graph from an input tensor name to an output   *)
(* tensor name, collects one weight matrix and one bias vector per affine  *)
(* layer, and hands them to writeNNet.                                     *)
(*                                                                         *)
(* Arrays: a 2-D array is a sequence of rows, a 1-D array a sequence of    *)
(* numbers; floats are modelled by integers (alpha, beta, 0.0, 1.0).       *)
(* An optional argument is <<>> for None and <<v>> for a supplied v.       *)
(* Sequences are 1-based, so the code's index k is k+1 here.               *)
(***************************************************************************)
EXTENDS Integers, Sequences, FiniteSets, TLC

VARIABLES graph, args, pc, inputName, outputName, idx, weights, biases, consumed, writeNNetCalls

vars == <<graph, args, pc, inputName, outputName, idx, weights, biases, consumed, writeNNetCalls>>

-----------------------------------------------------------------------------
(* Bounds of the model.                                                    *)

\* longest node list built from NodePool
MaxNodes == 2

\* longest chain of (affine, Relu) blocks built by ChainGraph
MaxBlocks == 3

-----------------------------------------------------------------------------
(* The numeric-array runtime (numpy) as far as the code uses it.           *)

Range(s) == {s[k] : k \in 1..Len(s)}

Rows(m) == Len(m)

Cols(m) == Len(m[1])

\* np.transpose / ndarray.transpose of a 2-D array
Transpose(m) == [c \in 1..Cols(m) |-> [r \in 1..Rows(m) |-> m[r][c]]]

\* weight *= alpha
ScaleMatrix(m, a) == [r \in 1..Rows(m) |-> [c \in 1..Cols(m) |-> m[r][c] * a]]

\* bias *= beta
ScaleVector(v, b) == [k \in 1..Len(v) |-> v[k] * b]

\* np.zeros(n)
Zeros(n) == [k \in 1..n |-> 0]

\* n*[x]
Repeat(n, x) == [k \in 1..n |-> x]

\* np.finfo(np.float32).min and .max, whose magnitude (3.4e38) is beyond the
\* model's integers; only their identity matters here
Float32Min == -2147483647

Float32Max == 2147483647

-----------------------------------------------------------------------------
(* Pure parts of the loop body.                                            *)

\* [numpy_helper.to_array(inits) for inits in graph.initializer if inits.name==name]
RECURSIVE Matching(_, _)
Matching(inits, name) ==
    IF inits = <<>> THEN <<>>
    ELSE (IF Head(inits).name = name THEN <<Head(inits).array>> ELSE <<>>)
         \o Matching(Tail(inits), name)

\* biasName in [i.name for i in graph.initializer]
HasInitializer(inits, name) == \E k \in 1..Len(inits) : inits[k].name = name

\* the loop over node.attribute: the last attribute of that name, else the default
RECURSIVE AttrValue(_, _, _)
AttrValue(attrs, name, default) ==
    IF attrs = <<>> THEN default
    ELSE AttrValue(Tail(attrs), name, IF Head(attrs).name = name THEN Head(attrs).v ELSE default)

\* OtherIndex without the test of the first operand: always the second operand
OtherIndexSecond(node, cursor) == 2

\* weightIndex / biasIndex: the operand that is not the cursor
OtherIndex(node, cursor) == IF node.input[1] = cursor THEN 2 ELSE 1

SupportedOps == {"MatMul", "Add", "Gemm", "Relu"}

\* the state of the loop: the cursor, the accumulators, and how the body ended
\* ("loop": go on, "break": a break statement, "raise": an exception)
LoopState(cursor, ws, bs) == [inputName |-> cursor, weights |-> ws, biases |-> bs, ctl |-> "loop"]

Raise(st) == [st EXCEPT !.ctl = "raise"]

\* MatMulBranch putting the new weight in front of the list instead of behind
MatMulBranchPrepend(node, inits, st) ==
    IF Len(node.input) # 2 THEN Raise(st)
    ELSE [st EXCEPT !.weights = Matching(inits, node.input[OtherIndex(node, st.inputName)]) \o @,
                    !.inputName = node.output[1]]

MatMulBranch(node, inits, st) ==
    IF Len(node.input) # 2 THEN Raise(st)
    ELSE [st EXCEPT !.weights = @ \o Matching(inits, node.input[OtherIndex(node, st.inputName)]),
                    !.inputName = node.output[1]]

AddBranch(node, inits, st) ==
    IF Len(node.input) # 2 THEN Raise(st)
    ELSE [st EXCEPT !.biases = @ \o Matching(inits, node.input[OtherIndex(node, st.inputName)]),
                    !.inputName = node.output[1]]

\* the weight a Gemm node contributes: stored array, transposed if transA, times alpha
GemmWeight(node, stored) ==
    ScaleMatrix(IF AttrValue(node.attribute, "transA", 0) # 0 THEN Transpose(stored) ELSE stored,
                AttrValue(node.attribute, "alpha", 1))

\* GemmBias sizing the zero vector by the weight's column count (shape[1])
GemmBiasByCols(node, inits, weight) ==
    ScaleVector(IF HasInitializer(inits, node.input[3])
                THEN Matching(inits, node.input[3])[1]
                ELSE Zeros(Cols(weight)),
                AttrValue(node.attribute, "beta", 1))

\* the bias a Gemm node contributes, given the weight it contributes
GemmBias(node, inits, weight) ==
    ScaleVector(IF HasInitializer(inits, node.input[3])
                THEN Matching(inits, node.input[3])[1]
                ELSE Zeros(Rows(weight)),
                AttrValue(node.attribute, "beta", 1))

GemmBranch(node, inits, st) ==
    IF Len(node.input) # 3 THEN Raise(st)
    ELSE IF Matching(inits, node.input[2]) = <<>> THEN Raise(st)
    ELSE LET weight == GemmWeight(node, Matching(inits, node.input[2])[1])
         IN  [st EXCEPT !.weights = Append(@, weight),
                        !.biases = Append(@, GemmBias(node, inits, weight)),
                        !.inputName = node.output[1]]

\* ReluBranch that leaves the cursor where it is
ReluBranchStay(node, st) == st

ReluBranch(node, st) == [st EXCEPT !.inputName = node.output[1]]

\* UnsupportedBranch that breaks without clearing the accumulators
UnsupportedBranchKeep(st) == [st EXCEPT !.ctl = "break"]

UnsupportedBranch(st) == [st EXCEPT !.weights = <<>>, !.biases = <<>>, !.ctl = "break"]

\* TerminateCheck that never breaks
TerminateCheckNever(st, out) == st

\* if outputName == inputName: break
TerminateCheck(st, out) ==
    IF st.ctl = "loop" /\ out = st.inputName THEN [st EXCEPT !.ctl = "break"] ELSE st

\* one iteration of the loop over graph.node
ScanNode(node, inits, out, st) ==
    IF st.inputName \notin Range(node.input) THEN st
    ELSE IF node.op_type = "MatMul" THEN TerminateCheck(MatMulBranch(node, inits, st), out)
    ELSE IF node.op_type = "Add" THEN TerminateCheck(AddBranch(node, inits, st), out)
    ELSE IF node.op_type = "Gemm" THEN TerminateCheck(GemmBranch(node, inits, st), out)
    ELSE IF node.op_type = "Relu" THEN TerminateCheck(ReluBranch(node, st), out)
    ELSE UnsupportedBranch(st)

\* weights = [np.transpose(w) for w in weights] when take_transpose
TakeTransposeOf(flag, ws) == IF flag THEN [k \in 1..Len(ws) |-> Transpose(ws[k])] ELSE ws

\* Validated without the comparison of the two counts
ValidatedNoCounts(cursor, out, ws, bs) == out = cursor /\ Len(ws) > 0

\* the test that decides whether the file is written
Validated(cursor, out, ws, bs) == out = cursor /\ Len(ws) > 0 /\ Len(ws) = Len(bs)

\* inputSize = weights[0].shape[0]
InputSize(ws) == Rows(ws[1])

\* an optional argument, or its default when it is None
OrDefault(opt, default) == IF opt = <<>> THEN default ELSE opt[1]

\* the arguments of the writeNNet call
WriterArgs(a, ws, bs) ==
    [weights |-> ws, biases |-> bs,
     inputMins |-> OrDefault(a.inputMins, Repeat(InputSize(ws), Float32Min)),
     inputMaxes |-> OrDefault(a.inputMaxes, Repeat(InputSize(ws), Float32Max)),
     means |-> OrDefault(a.means, Repeat(InputSize(ws) + 1, 0)),
     ranges |-> OrDefault(a.ranges, Repeat(InputSize(ws) + 1, 1))]

-----------------------------------------------------------------------------
(* The whole call as a function of its inputs (used to compare two graphs). *)

\* the for loop from node i on
RECURSIVE RunLoop(_, _, _, _, _)
RunLoop(nodes, inits, out, st, i) ==
    IF i > Len(nodes) \/ st.ctl # "loop" THEN st
    ELSE RunLoop(nodes, inits, out, ScanNode(nodes[i], inits, out, st), i + 1)

\* "if not name: assert len(declared)==1; name = declared[0].name": <<>> when the assert fails
ResolveName(name, declared) ==
    IF name # "" THEN <<name>> ELSE IF Len(declared) = 1 THEN <<declared[1]>> ELSE <<>>

\* how a call ends: "raised" (exception), "written" (writeNNet called) or "failed"
Outcome(g, a) ==
    LET rin == ResolveName(a.inputName, g.input)
        rout == ResolveName(a.outputName, g.output)
    IN  IF rin = <<>> \/ rout = <<>>
        THEN [status |-> "raised", inputName |-> a.inputName, weights |-> <<>>, biases |-> <<>>]
        ELSE LET st == RunLoop(g.node, g.initializer, rout[1], LoopState(rin[1], <<>>, <<>>), 1)
                 ws == TakeTransposeOf(a.take_transpose, st.weights)
             IN  IF st.ctl = "raise"
                 THEN [status |-> "raised", inputName |-> st.inputName,
                       weights |-> st.weights, biases |-> st.biases]
                 ELSE [status |-> IF Validated(st.inputName, rout[1], ws, st.biases)
                                  THEN "written" ELSE "failed",
                       inputName |-> st.inputName, weights |-> ws, biases |-> st.biases]

-----------------------------------------------------------------------------
(* The inputs: graphs and call arguments.                                  *)

Attr(n, value) == [name |-> n, v |-> value]

Node(op, ins, outs, attrs) == [op_type |-> op, input |-> ins, output |-> outs, attribute |-> attrs]

Initializer(n, a) == [name |-> n, array |-> a]

\* initializers of the graphs built from NodePool; "W9" and "B9" name no initializer
PoolInitializer ==
    << Initializer("W23", << <<1, 2, 3>>, <<4, 5, 6>> >>),
       Initializer("B2", <<7, 8>>),
       Initializer("W12", << <<1, 2>> >>),
       Initializer("B1", <<9>>),
       Initializer("W32", << <<1, 2>>, <<3, 4>>, <<5, 6>> >>) >>

\* the nodes the small graphs are built from
NodePool ==
    { Node("Gemm", <<"X", "W23", "B2">>, <<"T1">>, <<>>),
      Node("Relu", <<"T1">>, <<"T2">>, <<>>),
      Node("Gemm", <<"T2", "W12", "B1">>, <<"Y">>, <<Attr("transB", 1)>>),
      Node("Gemm", <<"T1", "W32", "B9">>, <<"Y">>,
           <<Attr("alpha", 2), Attr("beta", 3), Attr("transA", 1)>>),
      Node("MatMul", <<"X", "W32">>, <<"T1">>, <<>>),
      Node("Add", <<"B2", "T1">>, <<"T2">>, <<>>),
      Node("MatMul", <<"X", "W9">>, <<"T1">>, <<>>),
      Node("Gemm", <<"T1", "W9", "B1">>, <<"Y">>, <<>>),
      Node("Gemm", <<"X", "W23", "B9">>, <<"T1">>, <<>>),
      Node("Conv", <<"T1", "W23">>, <<"T2">>, <<>>),
      Node("Add", <<"T2">>, <<"Y">>, <<>>) }

SeqsUpTo(S, n) == UNION {[1..k -> S] : k \in 0..n}

PoolGraphs ==
    {[input |-> <<"X">>, output |-> <<"Y">>, node |-> ns, initializer |-> PoolInitializer] :
        ns \in SeqsUpTo(NodePool, MaxNodes)}

\* graphs that declare two outputs, so that an omitted outputName cannot be inferred
TwoOutputGraphs ==
    {[input |-> <<"X">>, output |-> <<"Y", "T2">>, node |-> ns, initializer |-> PoolInitializer] :
        ns \in SeqsUpTo(NodePool, 1)}

\* layer widths of the chains: 3, 2, 1, 3, ...
ChainDim(k) == 3 - (k % 3)

\* the ways one affine block of a chain is written
BlockVariants ==
    { [kind |-> "Gemm", cursorFirst |-> TRUE, alpha |-> 1, beta |-> 1, transA |-> FALSE],
      [kind |-> "Gemm", cursorFirst |-> TRUE, alpha |-> 2, beta |-> 3, transA |-> TRUE],
      [kind |-> "MatMulAdd", cursorFirst |-> TRUE, alpha |-> 1, beta |-> 1, transA |-> FALSE],
      [kind |-> "MatMulAdd", cursorFirst |-> FALSE, alpha |-> 1, beta |-> 1, transA |-> FALSE] }

\* the attribute list of a block's Gemm node: empty when every value is the default
VariantAttributes(v) ==
    IF v.alpha = 1 /\ v.beta = 1 /\ ~v.transA THEN <<>>
    ELSE <<Attr("alpha", v.alpha), Attr("beta", v.beta), Attr("transA", IF v.transA THEN 1 ELSE 0)>>

\* block k's stored weight is out x in, unless the block's Gemm transposes it
\* (transA) or the block is MatMul + Add, and then it is in x out
ChainStoredTransposed(v) == v.kind = "MatMulAdd" \/ v.transA

ChainWeight(k, v) ==
    LET w == [r \in 1..ChainDim(k) |-> [c \in 1..ChainDim(k - 1) |-> 100 * k + 10 * r + c]]
    IN  IF ChainStoredTransposed(v) THEN Transpose(w) ELSE w

ChainBias(k) == [r \in 1..ChainDim(k) |-> 100 * k + r]

TensorName(prefix, k) == prefix \o ToString(k)

ChainIn(k) == IF k = 1 THEN "h0" ELSE TensorName("r", k - 1)

Pair(first, a, b) == IF first THEN <<a, b>> ELSE <<b, a>>

\* the nodes of block k: the affine (Gemm, or MatMul then Add), then the Relu
ChainBlock(k, v) ==
    (IF v.kind = "Gemm"
     THEN << Node("Gemm", <<ChainIn(k), TensorName("W", k), TensorName("B", k)>>,
                  <<TensorName("z", k)>>, VariantAttributes(v)) >>
     ELSE << Node("MatMul", Pair(v.cursorFirst, ChainIn(k), TensorName("W", k)),
                  <<TensorName("m", k)>>, <<>>),
             Node("Add", Pair(v.cursorFirst, TensorName("m", k), TensorName("B", k)),
                  <<TensorName("z", k)>>, <<>>) >>)
    \o << Node("Relu", <<TensorName("z", k)>>, <<TensorName("r", k)>>, <<>>) >>

RECURSIVE ChainNodes(_, _)
ChainNodes(vs, k) ==
    IF k > Len(vs) THEN <<>> ELSE ChainBlock(k, vs[k]) \o ChainNodes(vs, k + 1)

RECURSIVE ChainInitializer(_, _)
ChainInitializer(vs, k) ==
    IF k > Len(vs) THEN <<>>
    ELSE << Initializer(TensorName("W", k), ChainWeight(k, vs[k])),
            Initializer(TensorName("B", k), ChainBias(k)) >> \o ChainInitializer(vs, k + 1)

\* N = Len(vs) blocks in chain order; the declared output is the last Relu's
\* output, or (endAtRelu false) the last affine's output
ChainGraph(vs, endAtRelu) ==
    [input |-> <<"h0">>,
     output |-> <<TensorName(IF endAtRelu THEN "r" ELSE "z", Len(vs))>>,
     node |-> ChainNodes(vs, 1),
     initializer |-> ChainInitializer(vs, 1)]

ChainGraphs ==
    {ChainGraph(vs, e) : vs \in UNION {[1..n -> BlockVariants] : n \in 1..MaxBlocks}, e \in BOOLEAN}

Graphs == PoolGraphs \cup TwoOutputGraphs \cup ChainGraphs

\* the optional normalization arguments: all None, all supplied, or some supplied
NormChoices ==
    { [inputMins |-> <<>>, inputMaxes |-> <<>>, means |-> <<>>, ranges |-> <<>>],
      [inputMins |-> << <<-5, -5>> >>, inputMaxes |-> << <<5, 5>> >>,
       means |-> << <<1, 1, 1>> >>, ranges |-> << <<2, 2, 2>> >>],
      [inputMins |-> <<>>, inputMaxes |-> << <<5, 5>> >>, means |-> << <<1, 1, 1>> >>, ranges |-> <<>>] }

CallArgs ==
    {[inputName |-> i, outputName |-> o, take_transpose |-> t,
      inputMins |-> n.inputMins, inputMaxes |-> n.inputMaxes, means |-> n.means, ranges |-> n.ranges] :
        i \in {"", "T1"}, o \in {"", "T2"}, t \in BOOLEAN, n \in NormChoices}

-----------------------------------------------------------------------------
(* The call as a state machine.                                            *)

Init ==
    /\ graph \in Graphs
    /\ args \in CallArgs
    /\ pc = "start"
    /\ inputName = args.inputName
    /\ outputName = args.outputName
    /\ idx = 0
    /\ weights = <<>>
    /\ biases = <<>>
    /\ consumed = <<>>
    /\ writeNNetCalls = <<>>

\* lines 28-40: infer the omitted endpoint names, start with empty accumulators
ResolveNames ==
    /\ pc = "start"
    /\ LET rin == ResolveName(inputName, graph.input)
           rout == ResolveName(outputName, graph.output)
       IN  IF rin = <<>> \/ rout = <<>>
           THEN pc' = "raised" /\ UNCHANGED <<inputName, outputName>>
           ELSE pc' = "scan" /\ inputName' = rin[1] /\ outputName' = rout[1]
    /\ UNCHANGED <<graph, args, idx, weights, biases, consumed, writeNNetCalls>>

\* the node the loop examines next
NextNode == graph.node[idx + 1]

Scanning == pc = "scan" /\ idx < Len(graph.node)

\* the node does not use the cursor as an input: ignored
SkipNode ==
    /\ Scanning
    /\ inputName \notin Range(NextNode.input)
    /\ idx' = idx + 1
    /\ UNCHANGED <<graph, args, pc, inputName, outputName, weights, biases, consumed, writeNNetCalls>>

\* the loop body on a node that uses the cursor
Consume ==
    LET st == ScanNode(NextNode, graph.initializer, outputName, LoopState(inputName, weights, biases))
    IN  /\ idx' = idx + 1
        /\ inputName' = st.inputName
        /\ weights' = st.weights
        /\ biases' = st.biases
        /\ pc' = IF st.ctl = "raise" THEN "raised" ELSE IF st.ctl = "break" THEN "transpose" ELSE "scan"
        /\ consumed' = IF st.ctl = "raise" \/ NextNode.op_type \notin SupportedOps THEN consumed
                       ELSE Append(consumed, [node |-> idx + 1, via |-> inputName])
        /\ UNCHANGED <<graph, args, outputName, writeNNetCalls>>

OnChain(op) == Scanning /\ inputName \in Range(NextNode.input) /\ NextNode.op_type = op

ScanMatMul == OnChain("MatMul") /\ Consume

ScanAdd == OnChain("Add") /\ Consume

ScanGemm == OnChain("Gemm") /\ Consume

ScanRelu == OnChain("Relu") /\ Consume

ScanUnsupported ==
    /\ Scanning
    /\ inputName \in Range(NextNode.input)
    /\ NextNode.op_type \notin SupportedOps
    /\ Consume

\* the loop ran out of nodes
EndLoop ==
    /\ pc = "scan"
    /\ idx = Len(graph.node)
    /\ pc' = "transpose"
    /\ UNCHANGED <<graph, args, inputName, outputName, idx, weights, biases, consumed, writeNNetCalls>>

\* lines 134-137
TakeTranspose ==
    /\ pc = "transpose"
    /\ weights' = TakeTransposeOf(args.take_transpose, weights)
    /\ pc' = "validate"
    /\ UNCHANGED <<graph, args, inputName, outputName, idx, biases, consumed, writeNNetCalls>>

\* lines 140-158
WriteNNet ==
    /\ pc = "validate"
    /\ Validated(inputName, outputName, weights, biases)
    /\ writeNNetCalls' = Append(writeNNetCalls, WriterArgs(args, weights, biases))
    /\ pc' = "done"
    /\ UNCHANGED <<graph, args, inputName, outputName, idx, weights, biases, consumed>>

\* lines 161-168
CouldNotWrite ==
    /\ pc = "validate"
    /\ ~Validated(inputName, outputName, weights, biases)
    /\ pc' = "done"
    /\ UNCHANGED <<graph, args, inputName, outputName, idx, weights, biases, consumed, writeNNetCalls>>

Next ==
    \/ ResolveNames
    \/ SkipNode
    \/ ScanMatMul
    \/ ScanAdd
    \/ ScanGemm
    \/ ScanRelu
    \/ ScanUnsupported
    \/ EndLoop
    \/ TakeTranspose
    \/ WriteNNet
    \/ CouldNotWrite

Spec == Init /\ [][Next]_vars

-----------------------------------------------------------------------------
(* Vocabulary of the properties.                                           *)

Written == writeNNetCalls # <<>>

Ended == pc \in {"done", "raised"}

\* the node consumed k-th, and the cursor value that matched it
ConsumedNode(k) == graph.node[consumed[k].node]

\* the operand of a two-input node that is not the tensor `via`
NonCursorOperand(node, via) == IF node.input[1] = via THEN node.input[2] ELSE node.input[1]

Named(name) == \E k \in 1..Len(graph.initializer) : graph.initializer[k].name = name

\* the cursor the scan started from
StartName == IF args.inputName # "" THEN args.inputName ELSE graph.input[1]

\* the scan stopped at node idx because its operator is unsupported
AbortedAtIdx ==
    /\ idx >= 1
    /\ graph.node[idx].op_type \notin {"MatMul", "Add", "Gemm", "Relu"}
    /\ inputName \in Range(graph.node[idx].input)

\* C1: writeNNet is called iff, the scan over, the cursor equals the output
\* name, at least one weight was collected and there are as many weights as
\* biases; otherwise the call ends without invoking it, whatever was collected.
C1_WriterIffValidated ==
    /\ Len(writeNNetCalls) <= 1
    /\ pc # "done" => ~Written
    /\ pc = "done" =>
          (Written <=> (inputName = outputName /\ Len(weights) > 0 /\ Len(weights) = Len(biases)))
    /\ Written => writeNNetCalls[1].weights = weights /\ writeNNetCalls[1].biases = biases

\* layers were accumulated, the cursor never reached the output, nothing written
C1_Witness ==
    pc = "done" /\ ~Written /\ inputName # outputName /\ Len(weights) > 0 /\ Len(biases) > 0

\* C2: a node on the active chain with an operator outside {MatMul, Add, Gemm,
\* Relu} stops the scan at that node with both accumulators empty, and the
\* call ends without writing, whatever had been accumulated before.
C2_UnsupportedAbort ==
    AbortedAtIdx =>
        /\ pc \in {"transpose", "validate", "done"}
        /\ weights = <<>>
        /\ biases = <<>>
        /\ ~Written

\* the abort happened after a Gemm layer had been collected
C2_Witness ==
    /\ pc = "done"
    /\ AbortedAtIdx
    /\ \E k \in 1..Len(consumed) : ConsumedNode(k).op_type = "Gemm"

\* some consumed MatMul node's weight operand names no initializer
MissingWeightConsumed ==
    \E k \in 1..Len(consumed) :
        /\ ConsumedNode(k).op_type = "MatMul"
        /\ ~Named(NonCursorOperand(ConsumedNode(k), consumed[k].via))

\* C3: once the scan has consumed a MatMul (or Gemm) node whose weight name
\* has no initializer, the call fails: writeNNet is never invoked.
C3_MissingWeightFails == MissingWeightConsumed => ~Written

\* C4: on success row count of weight[i] = length of bias[i] for every layer,
\* and column count of weight[i] = row count of weight[i-1] for i > 0.
C4_LayerInvariants ==
    Written =>
        LET c == writeNNetCalls[1]
        IN  \A i \in 1..Len(c.weights) :
                /\ Rows(c.weights[i]) = Len(c.biases[i])
                /\ i > 1 => Cols(c.weights[i]) = Rows(c.weights[i - 1])

ChainSpecs == UNION {[1..n -> BlockVariants] : n \in 1..MaxBlocks}

\* what block k of a chain contributes: the stored weight (for Gemm transposed
\* if transA, times alpha) and the stored bias (for Gemm times beta), the
\* weight transposed once more under take_transpose
BlockWeight(k, v, flag) ==
    LET stored == ChainWeight(k, v)
        own == IF v.kind = "Gemm" /\ v.transA THEN Transpose(stored) ELSE stored
        alpha == IF v.kind = "Gemm" THEN v.alpha ELSE 1
        scaled == [r \in 1..Len(own) |-> [c \in 1..Len(own[1]) |-> alpha * own[r][c]]]
    IN  IF flag THEN Transpose(scaled) ELSE scaled

BlockBias(k, v) ==
    LET beta == IF v.kind = "Gemm" THEN v.beta ELSE 1
    IN  [r \in 1..ChainDim(k) |-> beta * (100 * k + r)]

\* C5: a graph of N (affine, Relu) blocks from the input name to the output
\* name, declared in chain order with every initializer present, is written
\* with exactly N layers, layer i carrying block i's weight and bias.
C5_ChainLengthAndOrder ==
    (Ended /\ graph.input = <<"h0">> /\ args.inputName = "" /\ args.outputName = "") =>
        \A vs \in ChainSpecs : \A e \in BOOLEAN :
            graph = ChainGraph(vs, e) =>
                /\ pc = "done"
                /\ Len(writeNNetCalls) = 1
                /\ Len(writeNNetCalls[1].weights) = Len(vs)
                /\ Len(writeNNetCalls[1].biases) = Len(vs)
                /\ \A i \in 1..Len(vs) :
                       /\ writeNNetCalls[1].weights[i] = BlockWeight(i, vs[i], args.take_transpose)
                       /\ writeNNetCalls[1].biases[i] = BlockBias(i, vs[i])

\* a two-block chain, MatMul + Add first, was written
C5_Witness ==
    /\ pc = "done"
    /\ Written
    /\ graph.input = <<"h0">>
    /\ Len(writeNNetCalls[1].weights) = 2
    /\ graph.node[1].op_type = "MatMul"
    /\ args.inputName = ""
    /\ args.outputName = ""

\* the graph with the two input operands of node j exchanged
SwapInputs(g, j) ==
    [g EXCEPT !.node[j].input = <<g.node[j].input[2], g.node[j].input[1]>>]

\* the k-th consumed node is a MatMul or Add whose two operands are the cursor
\* and, distinct from it, the name of an initializer
Swappable(k) ==
    /\ ConsumedNode(k).op_type \in {"MatMul", "Add"}
    /\ Len(ConsumedNode(k).input) = 2
    /\ ConsumedNode(k).input[1] # ConsumedNode(k).input[2]
    /\ Named(NonCursorOperand(ConsumedNode(k), consumed[k].via))

\* how the call at hand ended
Observed ==
    [status |-> IF pc = "raised" THEN "raised" ELSE IF Written THEN "written" ELSE "failed",
     inputName |-> inputName, weights |-> weights, biases |-> biases]

\* C6: exchanging the two input operands of a MatMul or Add node on the active
\* chain leaves the outcome unchanged: same result, weights, biases and cursor.
C6_OperandOrderInvariance ==
    Ended => \A k \in 1..Len(consumed) :
                 Swappable(k) => Outcome(SwapInputs(graph, consumed[k].node), args) = Observed

\* a written network one of whose MatMul nodes has the weight as first operand
C6_Witness ==
    /\ pc = "done"
    /\ Written
    /\ \E k \in 1..Len(consumed) :
           /\ Swappable(k)
           /\ ConsumedNode(k).op_type = "MatMul"
           /\ ConsumedNode(k).input[2] = consumed[k].via

NoneSupplied ==
    args.inputMins = <<>> /\ args.inputMaxes = <<>> /\ args.means = <<>> /\ args.ranges = <<>>

\* the input dimension of the first layer handed to the writer
InputFeatureCount == Cols(writeNNetCalls[1].weights[1])

\* C7: on success with no normalization argument supplied, inputMins and
\* inputMaxes have length k and means and ranges length k+1, all means 0 and
\* all ranges 1, k the input dimension of the first layer; a supplied array is
\* handed over unchanged.
C7_DefaultNormalization ==
    Written =>
        LET c == writeNNetCalls[1]
        IN  /\ NoneSupplied =>
                /\ Len(c.inputMins) = InputFeatureCount
                /\ Len(c.inputMaxes) = InputFeatureCount
                /\ Len(c.means) = InputFeatureCount + 1
                /\ Len(c.ranges) = InputFeatureCount + 1
                /\ \A i \in 1..Len(c.means) : c.means[i] = 0
                /\ \A i \in 1..Len(c.ranges) : c.ranges[i] = 1
            /\ args.inputMins # <<>> => c.inputMins = args.inputMins[1]
            /\ args.inputMaxes # <<>> => c.inputMaxes = args.inputMaxes[1]
            /\ args.means # <<>> => c.means = args.means[1]
            /\ args.ranges # <<>> => c.ranges = args.ranges[1]

\* the scan is about to consume a Gemm node whose weight has an initializer
\* and whose bias name has none
ZeroBiasGemmNext ==
    /\ Scanning
    /\ inputName \in Range(NextNode.input)
    /\ NextNode.op_type = "Gemm"
    /\ Len(NextNode.input) = 3
    /\ Named(NextNode.input[2])
    /\ ~Named(NextNode.input[3])

\* row count of the next node's weight as extracted: the stored array after
\* the transA transpose
ExtractedRows ==
    LET stored == CHOOSE a \in Range(graph.initializer) : a.name = NextNode.input[2]
        transA == \E k \in 1..Len(NextNode.attribute) :
                      NextNode.attribute[k].name = "transA" /\ NextNode.attribute[k].v # 0
    IN  IF transA THEN Len(stored.array[1]) ELSE Len(stored.array)

\* C8: a consumed Gemm node whose bias name has no initializer appends one
\* weight and one bias, the bias all zeros (whatever beta) and as long as the
\* extracted weight has rows; it is not a failure.
C8_ZeroBiasDefault ==
    [][ZeroBiasGemmNext =>
          /\ pc' # "raised"
          /\ Len(weights') = Len(weights) + 1
          /\ Len(biases') = Len(biases) + 1
          /\ Len(biases'[Len(biases')]) = Rows(weights'[Len(weights')])
          /\ Len(biases'[Len(biases')]) = ExtractedRows
          /\ \A r \in 1..Len(biases'[Len(biases')]) : biases'[Len(biases')][r] = 0]_vars

\* such a node (transA set, beta 3) has just been consumed
C8_Witness ==
    /\ pc \in {"scan", "transpose"}
    /\ consumed # <<>>
    /\ consumed[Len(consumed)].node = idx
    /\ graph.node[idx].op_type = "Gemm"
    /\ ~Named(graph.node[idx].input[3])
    /\ \E k \in 1..Len(graph.node[idx].attribute) : graph.node[idx].attribute[k] = Attr("beta", 3)
    /\ biases # <<>>
    /\ biases[Len(biases)] = <<0, 0>>

LayerEnd(k) == ConsumedNode(k).op_type \in {"Gemm", "Add"}

LayerStart(k) == ConsumedNode(k).op_type \in {"Gemm", "MatMul"}

\* C9 as stated: on success a Relu was consumed between every two consecutive
\* affine layers and none before the first or after the last.
C9_ReluPlacement ==
    Written =>
        /\ ConsumedNode(1).op_type # "Relu"
        /\ ConsumedNode(Len(consumed)).op_type # "Relu"
        /\ \A k \in 1..(Len(consumed) - 1) : ~(LayerEnd(k) /\ LayerStart(k + 1))

\* the number of arrays a consumed node adds to the weights / to the biases
RECURSIVE WeightsFrom(_)
WeightsFrom(k) ==
    IF k = 0 THEN 0
    ELSE WeightsFrom(k - 1)
         + (IF ConsumedNode(k).op_type = "Gemm" THEN 1
            ELSE IF ConsumedNode(k).op_type = "MatMul"
                    /\ Named(NonCursorOperand(ConsumedNode(k), consumed[k].via)) THEN 1
            ELSE 0)

RECURSIVE BiasesFrom(_)
BiasesFrom(k) ==
    IF k = 0 THEN 0
    ELSE BiasesFrom(k - 1)
         + (IF ConsumedNode(k).op_type = "Gemm" THEN 1
            ELSE IF ConsumedNode(k).op_type = "Add"
                    /\ Named(NonCursorOperand(ConsumedNode(k), consumed[k].via)) THEN 1
            ELSE 0)

\* C9 as amended: on success the consumed nodes are a strictly linear chain
\* from the start name to the output name (each takes the previous one's
\* output, in increasing declaration order), and the number of layers is the
\* number of weights the consumed MatMul and Gemm nodes contribute, equal to
\* the number of biases the Add and Gemm nodes contribute; Relu nodes
\* contribute none, wherever on the chain they lie.
C9_LinearChainReluFree ==
    Written =>
        /\ consumed # <<>>
        /\ consumed[1].via = StartName
        /\ \A k \in 1..Len(consumed) :
               /\ consumed[k].via \in Range(ConsumedNode(k).input)
               /\ k > 1 => /\ consumed[k].via = ConsumedNode(k - 1).output[1]
                           /\ consumed[k].node > consumed[k - 1].node
        /\ ConsumedNode(Len(consumed)).output[1] = outputName
        /\ Len(writeNNetCalls[1].weights) = WeightsFrom(Len(consumed))
        /\ Len(writeNNetCalls[1].biases) = BiasesFrom(Len(consumed))

\* written although the last consumed node is a Relu
C9_Witness ==
    /\ Written
    /\ ConsumedNode(Len(consumed)).op_type = "Relu"
    /\ ConsumedNode(1).op_type = "Gemm"

\* tensor t, an input of node j, is the output of no node declared before j
\* and is not the name the scan started from
ProducedOnlyLater(t, j) ==
    /\ t # StartName
    /\ \A i \in 1..(j - 1) : graph.node[i].output[1] # t

C10_State ==
    /\ idx <= Len(graph.node)
    /\ \A k \in 1..Len(consumed) :
           /\ consumed[k].node <= idx
           /\ k > 1 => consumed[k].node > consumed[k - 1].node
           /\ ~ProducedOnlyLater(consumed[k].via, consumed[k].node)
           /\ ConsumedNode(k).output[1] = outputName =>
                  k = Len(consumed) /\ idx = consumed[k].node /\ pc # "scan"

C10_Step ==
    /\ idx' = idx \/ (idx' = idx + 1 /\ pc = "scan")
    /\ consumed' = consumed \/ (Len(consumed') = Len(consumed) + 1 /\ consumed'[Len(consumed')].node = idx')

====
